---- MODULE Spec2Model ----
(***************************************************************************)
(* Verification model of the food-sustainability dashboards.               *)
(*                                                                         *)
(* The repository holds five near-duplicate Streamlit scripts.  Each one   *)
(* is a script that Streamlit re-executes from top to bottom on every      *)
(* widget change:  load_data() (memoised by @st.cache_data), the sidebar   *)
(* widgets, the filter application and the metrics.                        *)
(*                                                                         *)
(*   "S"   src/DV_Final_Project_Prathamesh_Surve_streamlit.py              *)
(*   "V1"  src/unnamed/part_000 lines   1..208                             *)
(*   "V2"  src/unnamed/part_000 lines 211..468                             *)
(*   "V3"  src/unnamed/part_000 lines 477..704                             *)
(*   "V4"  src/unnamed/part_000 lines 707..914                             *)
(*                                                                         *)
(* Text cells are sequences of one-character strings, so that lower(),     *)
(* split(','), strip(), contains() and to_numeric() are computed the way   *)
(* pandas computes them.  NA is the missing value of a text column, NaN    *)
(* the missing value of a numeric column; a number n is the cell <<n>>.    *)
(***************************************************************************)
EXTENDS Integers, Sequences, FiniteSets, TLC

VARIABLES
    variant,      \* which of the five scripts this process serves
    file,         \* the CSV on disk: [exists, rows]
    cache,        \* the st.cache_data entry of load_data: [full, df]
    reads,        \* number of pd.read_csv calls that returned a frame
    firstTable,   \* history: the table of the first load_data call that returned
    served,       \* how the latest load_data call was answered: body or cache
    sel,          \* the widget selections of the session
    status,       \* outcome of the latest script run
    surfaced,     \* what the latest run showed the operator about an error
    trace,        \* the script stages the latest run executed
    df,           \* the value load_data() returned in the latest run
    filtered_df,  \* the filtered view of the latest run
    metrics,      \* the metric row of the latest run
    charts,       \* the aggregates the latest run computed for its charts
    narrowed      \* history: some run of the session filtered rows out

vars == <<variant, file, cache, reads, firstTable, served, sel, status,
          surfaced, trace, df, filtered_df, metrics, charts, narrowed>>

-----------------------------------------------------------------------------
(* Bounds of the model *)

\* longest CSV (in rows) the model reads
MaxRows == 2

\* the model follows at most this many pd.read_csv calls of one process
MaxReads == 2

-----------------------------------------------------------------------------
(* Cells and text *)

NA == <<"<NA>">>
NaN == <<>>
Num(n) == <<n>>

UpperLetters ==
    <<"A","B","C","D","E","F","G","H","I","J","K","L","M",
      "N","O","P","Q","R","S","T","U","V","W","X","Y","Z">>

LowerLetters ==
    <<"a","b","c","d","e","f","g","h","i","j","k","l","m",
      "n","o","p","q","r","s","t","u","v","w","x","y","z">>

Digits == <<"0","1","2","3","4","5","6","7","8","9">>

LowerChar(c) ==
    IF \E i \in 1..26 : UpperLetters[i] = c
    THEN LowerLetters[CHOOSE i \in 1..26 : UpperLetters[i] = c]
    ELSE c

\* Series.str.lower(): NA stays NA
str_lower(s) ==
    IF s = NA THEN NA ELSE [i \in 1..Len(s) |-> LowerChar(s[i])]

\* Series.astype(str): the missing value becomes the text "nan"
astype_str(s) == IF s = NA THEN <<"n","a","n">> ELSE s

IsDigit(c) == \E i \in 1..10 : Digits[i] = c

DigitVal(c) == (CHOOSE i \in 1..10 : Digits[i] = c) - 1

RECURSIVE ParseNat(_)
ParseNat(s) ==
    IF Len(s) = 0 THEN 0
    ELSE 10 * ParseNat(SubSeq(s, 1, Len(s) - 1)) + DigitVal(s[Len(s)])

\* pd.to_numeric(errors='coerce') on the cells the model feeds it: a digit
\* string parses to its number, every other text and NA become NaN
to_numeric(s) ==
    IF s # NA /\ Len(s) > 0 /\ \A i \in 1..Len(s) : IsDigit(s[i])
    THEN Num(ParseNat(s))
    ELSE NaN

\* Series.str.split(',').str[0]
RECURSIVE FirstToken(_)
FirstToken(s) ==
    IF Len(s) = 0 \/ Head(s) = "," THEN <<>>
    ELSE <<Head(s)>> \o FirstToken(Tail(s))

str_split_first(s) == IF s = NA THEN NA ELSE FirstToken(s)

RECURSIVE LStrip(_)
LStrip(s) ==
    IF Len(s) > 0 /\ Head(s) = " " THEN LStrip(Tail(s)) ELSE s

RECURSIVE RStrip(_)
RStrip(s) ==
    IF Len(s) > 0 /\ s[Len(s)] = " " THEN RStrip(SubSeq(s, 1, Len(s) - 1)) ELSE s

\* Series.str.strip()
str_strip(s) == IF s = NA THEN NA ELSE RStrip(LStrip(s))

\* mutant: str.contains(pat) with the default case=True
contains_case_sensitive(s, pat) ==
    \E i \in 1..(Len(s) - Len(pat) + 1) : SubSeq(s, i, i + Len(pat) - 1) = pat

\* Series.str.contains(pat, case=False) on a text that is not NA
ContainsNoCase(s, pat) ==
    \E i \in 1..(Len(s) - Len(pat) + 1) :
        str_lower(SubSeq(s, i, i + Len(pat) - 1)) = str_lower(pat)

-----------------------------------------------------------------------------
(* The texts the model uses *)

France == <<"F","r","a","n","c","e">>

UnitedStates ==
    <<"U","n","i","t","e","d"," ","S","t","a","t","e","s"," ",
      "o","f"," ","A","m","e","r","i","c","a">>

Snacks == <<"S","n","a","c","k","s">>
Dairies == <<"D","a","i","r","i","e","s">>

organic == <<"o","r","g","a","n","i","c">>
Organic == <<"O","r","g","a","n","i","c">>

not_applicable ==
    <<"n","o","t","-","a","p","p","l","i","c","a","b","l","e">>

unknown == <<"u","n","k","n","o","w","n">>

-----------------------------------------------------------------------------
(* The CSV: raw rows as pd.read_csv hands them over.  Only the columns the *)
(* scripts compute with are kept; fat_100g and proteins_100g go through    *)
(* the same loop as energy-kcal_100g and sugars_100g.                      *)

Row(b, co, ca, ng, eg, nv, lb, en, su) ==
    [brands |-> b, countries |-> co, categories |-> ca,
     nutriscore_grade |-> ng, ecoscore_grade |-> eg, nova_group |-> nv,
     labels |-> lb, energy_kcal_100g |-> en, sugars_100g |-> su]

\* the rows files are made of
RowPool ==
    { Row(<<"x">>, France, Snacks, <<"a">>, <<"b">>, <<"1">>,
          Organic, <<"1","0","0">>, <<"5">>),
      Row(<<"x">>, France \o <<" ",",">> \o <<"S","p","a","i","n">>,
          Snacks \o <<",">> \o <<"B","a","r","s">>, <<"C">>, <<"A","+">>,
          <<"4">>, NA, <<"a","b","c">>, <<"3","0">>),
      Row(<<"y">>, UnitedStates, Dairies, <<"e">>, unknown, NA,
          <<"b","i","o">>, <<"5","0">>, <<"4","0">>),
      Row(NA, UnitedStates, Snacks, <<"b">>, <<"e">>, <<"4">>,
          <<"U","S","D","A"," ">> \o organic, NA, NA),
      Row(<<"y">>, NA, NA, unknown, NA, <<"x">>, NA, <<"7">>, <<"x">>) }

RECURSIVE SeqsUpTo(_, _)
SeqsUpTo(S, n) ==
    IF n = 0 THEN { <<>> }
    ELSE LET shorter == SeqsUpTo(S, n - 1)
         IN  shorter \cup { Append(q, x) : q \in shorter, x \in S }

\* a dataset snapshot has at least one record
Tables == SeqsUpTo(RowPool, MaxRows) \ { <<>> }

Missing == [exists |-> FALSE, rows |-> <<>>]

Present(rows) == [exists |-> TRUE, rows |-> rows]

Files == { Present(t) : t \in Tables }

Column(rows, c) == [i \in 1..Len(rows) |-> rows[i][c]]

\* pandas refuses the .str accessor on a column that read_csv typed float64,
\* which is what it does with a column whose every cell is empty
StrAccessorOK(col) == \E i \in 1..Len(col) : col[i] # NA

\* read_csv leaves a column as text (object) when a cell is not a number
ObjectDtype(col) ==
    \E i \in 1..Len(col) : col[i] # NA /\ to_numeric(col[i]) = NaN

-----------------------------------------------------------------------------
(* load_data *)

\* part_000: nutri_map / eco_map, applied by Series.map
nutri_map(g) ==
    CASE g = <<"a">> -> Num(5)
      [] g = <<"b">> -> Num(4)
      [] g = <<"c">> -> Num(3)
      [] g = <<"d">> -> Num(2)
      [] g = <<"e">> -> Num(1)
      [] OTHER -> NaN

eco_map(g) ==
    CASE g = <<"a">> -> Num(5)
      [] g = <<"b">> -> Num(4)
      [] g = <<"c">> -> Num(3)
      [] g = <<"d">> -> Num(2)
      [] g = <<"e">> -> Num(1)
      [] OTHER -> NaN

\* script S: the dictionaries are keyed by upper-case letters
nutri_score_num_map(g) ==
    CASE g = <<"A">> -> Num(5)
      [] g = <<"B">> -> Num(4)
      [] g = <<"C">> -> Num(3)
      [] g = <<"D">> -> Num(2)
      [] g = <<"E">> -> Num(1)
      [] OTHER -> NaN

eco_score_num_map(g) ==
    CASE g = <<"A","+">> -> Num(7)
      [] g = <<"A">> -> Num(6)
      [] g = <<"B">> -> Num(5)
      [] g = <<"C">> -> Num(4)
      [] g = <<"D">> -> Num(3)
      [] g = <<"E">> -> Num(2)
      [] g = <<"F">> -> Num(1)
      [] OTHER -> NaN

\* script S: Series.replace(['not-applicable','unknown'], np.nan)
replace_na(g) == IF g \in {not_applicable, unknown} THEN NA ELSE g

\* part_000: labels.astype(str).str.contains(pat, case=False); V1 and V4
\* pass the regex 'organic|Organic', V2 and V3 the pattern 'organic'
is_organic_of(v, labels) ==
    IF v \in {"V1", "V4"}
    THEN \/ ContainsNoCase(astype_str(labels), organic)
         \/ ContainsNoCase(astype_str(labels), Organic)
    ELSE ContainsNoCase(astype_str(labels), organic)

\* the body of load_data of part_000 after read_csv, one row
NormalizeRow(v, r) ==
    LET ng == str_lower(astype_str(r.nutriscore_grade))
        eg == str_lower(astype_str(r.ecoscore_grade))
    IN  [brands |-> r.brands, countries |-> r.countries,
         categories |-> r.categories, labels |-> r.labels,
         nutriscore_grade |-> ng, ecoscore_grade |-> eg,
         nova_group |-> to_numeric(r.nova_group),
         energy_kcal_100g |-> to_numeric(r.energy_kcal_100g),
         sugars_100g |-> to_numeric(r.sugars_100g),
         main_country |-> str_strip(str_split_first(r.countries)),
         main_category |-> str_strip(str_split_first(r.categories)),
         is_organic |-> is_organic_of(v, r.labels),
         nutri_score |-> nutri_map(ng),
         eco_score |-> eco_map(eg)]

\* the body of load_data of script S after read_csv, one row; sugars_100g is
\* the number read_csv parsed (the column is numeric when this is reached)
NormalizeRowS(r) ==
    LET ng == replace_na(r.nutriscore_grade)
        su == to_numeric(r.sugars_100g)
    IN  [brands |-> r.brands, countries |-> r.countries,
         categories |-> r.categories, labels |-> r.labels,
         nutriscore_grade |-> ng, ecoscore_grade |-> r.ecoscore_grade,
         eco_score_num |-> eco_score_num_map(r.ecoscore_grade),
         nutri_score_num |-> nutri_score_num_map(ng),
         country_primary |-> str_split_first(r.countries),
         sugars_100g |-> su,
         high_sugar |-> (su # NaN /\ 2 * su[1] > 45),
         organic |-> (r.labels # NA /\ ContainsNoCase(r.labels, Organic)),
         nova_group |-> to_numeric(r.nova_group),
         energy_kcal_100g |-> to_numeric(r.energy_kcal_100g)]

Normalize(v, rows) ==
    [i \in 1..Len(rows) |->
        IF v = "S" THEN NormalizeRowS(rows[i]) ELSE NormalizeRow(v, rows[i])]

\* the statements of load_data that raise after read_csv returned
RaisesAfterRead(v, rows) ==
    IF v = "S"
    THEN \/ ~StrAccessorOK(Column(rows, "countries"))
         \/ ObjectDtype(Column(rows, "sugars_100g"))
         \/ ~StrAccessorOK(Column(rows, "labels"))
    ELSE \/ ~StrAccessorOK(Column(rows, "countries"))
         \/ ~StrAccessorOK(Column(rows, "categories"))

LoadResult(ok, read, table, shown) ==
    [ok |-> ok, read |-> read, df |-> table, shown |-> shown]

\* mutant: a missing file is swallowed and an empty frame returned
load_data_body_swallowing(v, f) ==
    IF ~f.exists
    THEN LoadResult(TRUE, FALSE, <<>>, "nothing")
    ELSE IF RaisesAfterRead(v, f.rows)
    THEN LoadResult(FALSE, TRUE, <<>>, "exception")
    ELSE LoadResult(TRUE, TRUE, Normalize(v, f.rows), "nothing")

\* the body of load_data, run on a cache miss.  V2 wraps read_csv alone in
\* try/except: st.error(...) then st.stop(); elsewhere the exception leaves
\* the script
load_data_body(v, f) ==
    IF ~f.exists
    THEN LoadResult(FALSE, FALSE, <<>>,
                    IF v = "V2" THEN "st.error" ELSE "exception")
    ELSE IF RaisesAfterRead(v, f.rows)
    THEN LoadResult(FALSE, TRUE, <<>>, "exception")
    ELSE LoadResult(TRUE, TRUE, Normalize(v, f.rows), "nothing")

\* @st.cache_data: a stored value is returned without running the body
load_data(v, f, c) ==
    IF c.full
    THEN LoadResult(TRUE, FALSE, c.df, "nothing")
    ELSE load_data_body(v, f)

\* mutant: load_data without @st.cache_data
cache_after_nothing_stored(c, res) == c

\* @st.cache_data: only a call that returned stores its value
cache_after(c, res) ==
    IF ~c.full /\ res.ok THEN [full |-> TRUE, df |-> res.df] ELSE c

-----------------------------------------------------------------------------
(* The sidebar widgets *)

Variants == {"S", "V1", "V2", "V3", "V4"}

Letters == {"a", "b", "c", "d", "e"}

All == <<"A","l","l">>

\* the values a user picks from
CountryChoices == SUBSET {France, UnitedStates}
CategoryChoices == {All, Snacks}
CategoriesChoices == { {}, {Snacks} }
NutriChoices == { Letters, {"a", "b"}, {} }
NovaChoices == { {1, 2, 3, 4}, {4}, {} }
SugarChoices == { <<0, 100>>, <<5, 30>> }

\* the widgets' default values.  S: the multiselects have no default.  V1:
\* default=['France', 'United States of America'].  V2: the five most
\* frequent countries, which are all the countries of a table this small.
\* V3, V4: both country checkboxes ticked.
Defaults(v) ==
    [countries |-> IF v = "S" THEN {} ELSE {France, UnitedStates},
     organic |-> FALSE,
     category |-> All,
     categories |-> {},
     nutri |-> Letters,
     nova |-> IF v = "S" THEN {} ELSE {1, 2, 3, 4},
     sugar |-> <<0, 100>>]

\* the widgets each script puts in its sidebar
HasWidget(v, w) ==
    CASE w = "countries" -> TRUE
      [] w = "organic" -> v \in {"V2", "V3", "V4"}
      [] w = "category" -> v \in {"V2", "V3"}
      [] w = "categories" -> v = "S"
      [] w = "nutri" -> v \in {"V2", "V3"}
      [] w = "nova" -> v \in {"S", "V2", "V3"}
      [] w = "sugar" -> v \in {"V2", "V3"}

-----------------------------------------------------------------------------
(* Row predicates: what pandas computes for one row *)

\* mutant: every row with a country passes the membership test
isin_text_any_value(cell, values) == cell # NA

\* Series.isin(values) on a text column: NA is in no list of texts
isin_text(cell, values) == cell # NA /\ cell \in values

\* mutant: a missing number passes the membership test
isin_num_nan_member(cell, values) == cell = NaN \/ cell[1] \in values

\* Series.isin(values) on a numeric column: NaN is in no list of numbers
isin_num(cell, values) == cell # NaN /\ cell[1] \in values

\* nutriscore_grade.isin(letters): the letters are one-character texts
isin_grade(cell, letters) == \E g \in letters : cell = <<g>>

\* mutant: between(lo, hi, inclusive='neither')
between_exclusive(cell, lo, hi) == cell # NaN /\ lo < cell[1] /\ cell[1] < hi

\* Series.between(lo, hi): inclusive on both sides, NaN is outside
between(cell, lo, hi) == cell # NaN /\ lo <= cell[1] /\ cell[1] <= hi

\* mutant: the lower bound is exclusive
gt_and_le(cell, lo, hi) ==
    (cell # NaN /\ cell[1] > lo) /\ (cell # NaN /\ cell[1] <= hi)

\* (Series >= lo) & (Series <= hi): a comparison with NaN is False
ge_and_le(cell, lo, hi) ==
    (cell # NaN /\ cell[1] >= lo) /\ (cell # NaN /\ cell[1] <= hi)

\* Series == value on a text column
eq_text(cell, value) == cell # NA /\ cell = value

-----------------------------------------------------------------------------
(* APPLY FILTERS *)

\* script S: each filter is applied only when its multiselect is not empty,
\* and each rebinds the module-level name df
ApplyFiltersS(t, s) ==
    LET InCountry(r) == isin_text(r.country_primary, s.countries)
        InCategory(r) == isin_text(r.categories, s.categories)
        InNova(r) == isin_num(r.nova_group, s.nova)
        d1 == IF s.countries # {} THEN SelectSeq(t, InCountry) ELSE t
        d2 == IF s.categories # {} THEN SelectSeq(d1, InCategory) ELSE d1
    IN  IF s.nova # {} THEN SelectSeq(d2, InNova) ELSE d2

\* mutant: an empty country selection keeps every row
ApplyFiltersV1_empty_keeps_all(t, s) ==
    LET InCountry(r) == isin_text(r.main_country, s.countries)
    IN  IF s.countries = {} THEN t ELSE SelectSeq(t, InCountry)

\* V1: filtered_df = df[df['main_country'].isin(countries)].copy()
ApplyFiltersV1(t, s) ==
    LET InCountry(r) == isin_text(r.main_country, s.countries)
    IN  SelectSeq(t, InCountry)

\* mutant: the Nutri-Score predicate is skipped while all five letters are
\* selected
ApplyFiltersV2_nutri_optional(t, s) ==
    LET Mask(r) ==
            /\ isin_text(r.main_country, s.countries)
            /\ s.nutri # Letters => isin_grade(r.nutriscore_grade, s.nutri)
            /\ isin_num(r.nova_group, s.nova)
            /\ between(r.sugars_100g, s.sugar[1], s.sugar[2])
        IsOrganic(r) == r.is_organic
        InCategory(r) == eq_text(r.main_category, s.category)
        d1 == SelectSeq(t, Mask)
        d2 == IF s.organic THEN SelectSeq(d1, IsOrganic) ELSE d1
    IN  IF s.category # All THEN SelectSeq(d2, InCategory) ELSE d2

\* V2: one boolean mask, then organic, then category
ApplyFiltersV2(t, s) ==
    LET Mask(r) ==
            /\ isin_text(r.main_country, s.countries)
            /\ isin_grade(r.nutriscore_grade, s.nutri)
            /\ isin_num(r.nova_group, s.nova)
            /\ between(r.sugars_100g, s.sugar[1], s.sugar[2])
        IsOrganic(r) == r.is_organic
        InCategory(r) == eq_text(r.main_category, s.category)
        d1 == SelectSeq(t, Mask)
        d2 == IF s.organic THEN SelectSeq(d1, IsOrganic) ELSE d1
    IN  IF s.category # All THEN SelectSeq(d2, InCategory) ELSE d2

\* mutant: the NOVA predicate is skipped when all four groups or none are
\* selected
ApplyFiltersV3_nova_optional(t, s) ==
    LET InCountry(r) == isin_text(r.main_country, s.countries)
        IsOrganic(r) == r.is_organic
        InCategory(r) == eq_text(r.main_category, s.category)
        InNutri(r) == isin_grade(r.nutriscore_grade, s.nutri)
        InNova(r) == isin_num(r.nova_group, s.nova)
        InSugar(r) == ge_and_le(r.sugars_100g, s.sugar[1], s.sugar[2])
        d1 == SelectSeq(t, InCountry)
        d2 == IF s.organic THEN SelectSeq(d1, IsOrganic) ELSE d1
        d3 == IF s.category # All THEN SelectSeq(d2, InCategory) ELSE d2
        d4 == SelectSeq(d3, InNutri)
        d5 == IF s.nova \in {{}, {1, 2, 3, 4}} THEN d4
              ELSE SelectSeq(d4, InNova)
    IN  SelectSeq(d5, InSugar)

\* V3: one predicate after the other
ApplyFiltersV3(t, s) ==
    LET InCountry(r) == isin_text(r.main_country, s.countries)
        IsOrganic(r) == r.is_organic
        InCategory(r) == eq_text(r.main_category, s.category)
        InNutri(r) == isin_grade(r.nutriscore_grade, s.nutri)
        InNova(r) == isin_num(r.nova_group, s.nova)
        InSugar(r) == ge_and_le(r.sugars_100g, s.sugar[1], s.sugar[2])
        d1 == SelectSeq(t, InCountry)
        d2 == IF s.organic THEN SelectSeq(d1, IsOrganic) ELSE d1
        d3 == IF s.category # All THEN SelectSeq(d2, InCategory) ELSE d2
        d4 == SelectSeq(d3, InNutri)
        d5 == SelectSeq(d4, InNova)
    IN  SelectSeq(d5, InSugar)

\* V4: the country checkboxes, then organic
ApplyFiltersV4(t, s) ==
    LET InCountry(r) == isin_text(r.main_country, s.countries)
        IsOrganic(r) == r.is_organic
        d1 == SelectSeq(t, InCountry)
    IN  IF s.organic THEN SelectSeq(d1, IsOrganic) ELSE d1

\* mutant: the filters of a run are applied to the frame the run before
\* left in df
ApplyFilters_on_narrowed_frame(v, t, s) ==
    LET d == IF status = "ok" THEN filtered_df ELSE t
    IN  CASE v = "S" -> ApplyFiltersS(d, s)
          [] v = "V1" -> ApplyFiltersV1(d, s)
          [] v = "V2" -> ApplyFiltersV2(d, s)
          [] v = "V3" -> ApplyFiltersV3(d, s)
          [] v = "V4" -> ApplyFiltersV4(d, s)

\* the filter application of script v on the table t with the selections s
ApplyFilters(v, t, s) ==
    CASE v = "S" -> ApplyFiltersS(t, s)
      [] v = "V1" -> ApplyFiltersV1(t, s)
      [] v = "V2" -> ApplyFiltersV2(t, s)
      [] v = "V3" -> ApplyFiltersV3(t, s)
      [] v = "V4" -> ApplyFiltersV4(t, s)

\* V2: an empty country selection ends the run with st.warning / st.stop()
StopsOnEmptyCountries(v, s) == v = "V2" /\ Cardinality(s.countries) = 0

\* mutant: the filter drops the rows from the frame it is given
frame_after_inplace(t, view) == view

\* indexing with a mask (df[mask], .copy()) builds a new frame: the frame
\* that was indexed is what it was
frame_after_indexing(t, view) == t

-----------------------------------------------------------------------------
(* METRICS *)

RECURSIVE Gcd(_, _)
Gcd(a, b) == IF b = 0 THEN a ELSE Gcd(b, a % b)

\* the exact value of n / d, in lowest terms
Ratio(n, d) == <<n \div Gcd(n, d), d \div Gcd(n, d)>>

RECURSIVE SumCells(_)
SumCells(cells) ==
    IF Len(cells) = 0 THEN 0
    ELSE (IF Head(cells) = NaN THEN 0 ELSE Head(cells)[1]) + SumCells(Tail(cells))

\* Series.mean() of a numeric column: NaN cells are skipped, and the mean
\* of no value at all is NaN
mean(cells) ==
    LET NotNull(c) == c # NaN
        n == Len(SelectSeq(cells, NotNull))
    IN  IF n = 0 THEN NaN ELSE Ratio(SumCells(cells), n)

\* Series.mean() of a boolean column
mean_bool(flags) ==
    LET IsTrue(b) == b
    IN  IF Len(flags) = 0 THEN NaN
        ELSE Ratio(Len(SelectSeq(flags, IsTrue)), Len(flags))

\* value_counts().reindex(['a','b','c','d','e'] [, fill_value=0]): a letter
\* value_counts does not list gets the fill value, NaN without one
value_counts_reindex(t, fill) ==
    [g \in Letters |->
        LET HasGrade(r) == r.nutriscore_grade = <<g>>
            n == Len(SelectSeq(t, HasGrade))
        IN  IF n = 0 THEN fill ELSE Num(n)]

NoMetrics ==
    [count |-> NaN, mean_nutri_score |-> NaN, organic_share |-> NaN,
     grade_distribution |-> [g \in Letters |-> NaN]]

\* the metric row and the Nutri-Score distribution of V1..V4; V1 and V4
\* reindex with fill_value=0, V2 and V3 without
Metrics(v, view) ==
    [count |-> Num(Len(view)),
     mean_nutri_score |->
         mean([i \in 1..Len(view) |-> view[i].nutri_score]),
     organic_share |->
         mean_bool([i \in 1..Len(view) |-> view[i].is_organic]),
     grade_distribution |->
         value_counts_reindex(view,
             IF v \in {"V1", "V4"} THEN Num(0) ELSE NaN)]

-----------------------------------------------------------------------------
(* THE CHARTS' AGGREGATES *)

\* the characters of the group keys, in code-point order
Ascii ==
    <<" ", "+", ",", "-">> \o Digits \o UpperLetters \o LowerLetters

CharCode(c) == CHOOSE i \in 1..Len(Ascii) : Ascii[i] = c

\* str < str, as sorting a group index compares its keys
RECURSIVE TextLess(_, _)
TextLess(a, b) ==
    IF Len(b) = 0 THEN FALSE
    ELSE IF Len(a) = 0 THEN TRUE
    ELSE IF Head(a) = Head(b) THEN TextLess(Tail(a), Tail(b))
    ELSE CharCode(Head(a)) < CharCode(Head(b))

\* the keys of a groupby: distinct, sorted, the missing key left out
RECURSIVE SortKeys(_)
SortKeys(S) ==
    IF S = {} THEN <<>>
    ELSE LET m == CHOOSE x \in S : \A y \in S \ {x} : TextLess(x, y)
         IN  <<m>> \o SortKeys(S \ {m})

group_keys(keys) == SortKeys({ keys[i] : i \in 1..Len(keys) } \ {NA})

\* the cells of vals on the rows whose key is k
RECURSIVE CellsOf(_, _, _)
CellsOf(keys, vals, k) ==
    IF Len(keys) = 0 THEN <<>>
    ELSE (IF Head(keys) = k THEN <<Head(vals)>> ELSE <<>>)
             \o CellsOf(Tail(keys), Tail(vals), k)

\* Series.groupby(keys).mean() of a numeric column: one (key, mean) pair per
\* key, in key order; a group whose every value is NaN has the mean NaN
groupby_mean(keys, vals) ==
    LET ks == group_keys(keys)
    IN  [i \in 1..Len(ks) |-> <<ks[i], mean(CellsOf(keys, vals, ks[i]))>>]

\* Series.groupby(keys).mean() of a boolean column
groupby_mean_bool(keys, flags) ==
    LET ks == group_keys(keys)
    IN  [i \in 1..Len(ks) |-> <<ks[i], mean_bool(CellsOf(keys, flags, ks[i]))>>]

\* a < b on exact quotients
RatioLess(a, b) == a[1] * b[2] < b[1] * a[2]

\* position of the largest value of a Series of (key, value) pairs, the
\* first one among equals; NaN is smaller than any value
RECURSIVE ArgMax(_, _, _)
ArgMax(pairs, i, best) ==
    IF i > Len(pairs) THEN best
    ELSE IF pairs[i][2] # NaN
            /\ (pairs[best][2] = NaN \/ RatioLess(pairs[best][2], pairs[i][2]))
    THEN ArgMax(pairs, i + 1, i)
    ELSE ArgMax(pairs, i + 1, best)

Remove(q, i) == SubSeq(q, 1, i - 1) \o SubSeq(q, i + 1, Len(q))

\* Series.sort_values(ascending=False): largest first, NaN last
RECURSIVE sort_values_desc(_)
sort_values_desc(pairs) ==
    IF Len(pairs) = 0 THEN <<>>
    ELSE LET i == ArgMax(pairs, 2, 1)
         IN  <<pairs[i]>> \o sort_values_desc(Remove(pairs, i))

\* Series.head(n)
head(q, n) == SubSeq(q, 1, IF Len(q) < n THEN Len(q) ELSE n)

\* Series.nlargest(n): the n largest, largest first, the first of equals first
nlargest(pairs, n) == head(sort_values_desc(pairs), n)

\* nlargest(10) / head(10) of the brand chart
TopBrands == 10

\* V1..V4: filtered_df.dropna(subset=['nutri_score','brands'])
\*             .groupby('brands')['nutri_score'].mean().nlargest(10)
brand_scores(view) ==
    LET HasBoth(r) == r.nutri_score # NaN /\ r.brands # NA
        d == SelectSeq(view, HasBoth)
    IN  nlargest(groupby_mean(Column(d, "brands"), Column(d, "nutri_score")),
                 TopBrands)

\* script S: df.groupby('brands')['nutri_score_num'].mean()
\*             .sort_values(ascending=False).head(10)
brand_scores_S(view) ==
    head(sort_values_desc(groupby_mean(Column(view, "brands"),
                                       Column(view, "nutri_score_num"))),
         TopBrands)

\* the sugar content from which V1..V4 call a product high in sugar
HighSugar == 15

\* Series >= 15: a comparison with NaN is False
ge_high_sugar(cell) == cell # NaN /\ cell[1] >= HighSugar

\* Series * 100
times100(pairs) ==
    [i \in 1..Len(pairs) |->
        <<pairs[i][1],
          IF pairs[i][2] = NaN THEN NaN
          ELSE Ratio(100 * pairs[i][2][1], pairs[i][2][2])>>]

\* V1 (n = 10) and V4 (n = 8): the share of high-sugar rows per country over
\* the rows that have a sugar value; the mean is not multiplied by 100
country_sugar_pct(view, n) ==
    LET HasSugar(r) == r.sugars_100g # NaN
        d == SelectSeq(view, HasSugar)
        high_sugar == [i \in 1..Len(d) |-> ge_high_sugar(d[i].sugars_100g)]
    IN  head(sort_values_desc(
                 groupby_mean_bool(Column(d, "main_country"), high_sugar)), n)

\* V2, V3: (filtered_df['sugars_100g'] >= 15).groupby(main_country).mean()*100
country_high(view) ==
    LET high_sugar ==
            [i \in 1..Len(view) |-> ge_high_sugar(view[i].sugars_100g)]
    IN  times100(groupby_mean_bool(Column(view, "main_country"), high_sugar))

\* script S: df.groupby('country_primary')['high_sugar'].mean()
country_sugar(view) ==
    groupby_mean_bool(Column(view, "country_primary"),
                      Column(view, "high_sugar"))

Computed(pairs) == [raised |-> FALSE, pairs |-> pairs]

\* V1: the NOVA counts per country, unstacked; nova_country[4] raises
\* KeyError when no counted row has nova_group 4
top_ultra(view) ==
    LET Counted(r) == r.nova_group # NaN
        d == SelectSeq(view, Counted)
        is4 == [i \in 1..Len(d) |-> d[i].nova_group = Num(4)]
        keys == Column(d, "main_country")
    IN  IF \E i \in 1..Len(d) : is4[i] /\ keys[i] # NA
        THEN Computed(head(sort_values_desc(
                               times100(groupby_mean_bool(keys, is4))), 10))
        ELSE [raised |-> TRUE, pairs |-> <<>>]

\* V2, V3: groupby('main_country')['nova_group']
\*             .apply(lambda x: (x==4).mean()*100)
ultra_pct(view) ==
    LET is4 == [i \in 1..Len(view) |-> view[i].nova_group = Num(4)]
    IN  Computed(times100(
            groupby_mean_bool(Column(view, "main_country"), is4)))

\* V4: the same after dropna(subset=['nova_group']), the 5 largest
ultra_pct_V4(view) ==
    LET Counted(r) == r.nova_group # NaN
        d == SelectSeq(view, Counted)
        is4 == [i \in 1..Len(d) |-> d[i].nova_group = Num(4)]
    IN  Computed(head(sort_values_desc(times100(
            groupby_mean_bool(Column(d, "main_country"), is4))), 5))

\* sum of x^a * y^b over the points <<x, y>> of pts
RECURSIVE SumPow(_, _, _)
SumPow(pts, a, b) ==
    IF Len(pts) = 0 THEN 0
    ELSE (Head(pts)[1] ^ a) * (Head(pts)[2] ^ b) + SumPow(Tail(pts), a, b)

Sign(n) == IF n > 0 THEN 1 ELSE IF n < 0 THEN -1 ELSE 0

\* mutant: fewer than two points give the value 0
corr_zero_when_short(pts) ==
    LET n == Len(pts)
        cov == n * SumPow(pts, 1, 1) - SumPow(pts, 1, 0) * SumPow(pts, 0, 1)
        vx == n * SumPow(pts, 2, 0) - SumPow(pts, 1, 0) ^ 2
        vy == n * SumPow(pts, 0, 2) - SumPow(pts, 0, 1) ^ 2
    IN  IF n < 2 THEN <<0, Ratio(0, 1)>>
        ELSE IF vx = 0 \/ vy = 0 THEN NaN
        ELSE <<Sign(cov), Ratio(cov * cov, vx * vy)>>

\* Series.corr (Pearson) over the points of two columns without NaN: NaN
\* for fewer than two points and for a column of one repeated value, else
\* r = cov / (sd_x * sd_y), held exactly as <<sign of r, r^2>>
corr(pts) ==
    LET n == Len(pts)
        cov == n * SumPow(pts, 1, 1) - SumPow(pts, 1, 0) * SumPow(pts, 0, 1)
        vx == n * SumPow(pts, 2, 0) - SumPow(pts, 1, 0) ^ 2
        vy == n * SumPow(pts, 0, 2) - SumPow(pts, 0, 1) ^ 2
    IN  IF n < 2 \/ vx = 0 \/ vy = 0 THEN NaN
        ELSE <<Sign(cov), Ratio(cov * cov, vx * vy)>>

\* corr_df = filtered_df.dropna(subset=['nutri_score','eco_score']), as the
\* points (nutri_score, eco_score); V2 also keeps only scores between 1 and 5
corr_df(v, view) ==
    LET HasBoth(r) ==
            /\ r.nutri_score # NaN /\ r.eco_score # NaN
            /\ v = "V2" => /\ between(r.nutri_score, 1, 5)
                           /\ between(r.eco_score, 1, 5)
        d == SelectSeq(view, HasBoth)
    IN  [i \in 1..Len(d) |-> <<d[i].nutri_score[1], d[i].eco_score[1]>>]

\* V4 computes the correlation of more than this many points only
MinCorrRows == 5

NoCorrelation == [points |-> <<>>, computed |-> FALSE, value |-> NaN]

\* the correlation chart: V4 shows st.info instead of a correlation when
\* corr_df has 5 rows or fewer; S plots the points without a correlation
correlation(v, view) ==
    LET pts == corr_df(v, view)
    IN  IF v = "S" THEN NoCorrelation
        ELSE IF v = "V4" /\ ~(Len(pts) > MinCorrRows)
        THEN [points |-> pts, computed |-> FALSE, value |-> NaN]
        ELSE [points |-> pts, computed |-> TRUE, value |-> corr(pts)]

\* number of cells of col equal to g
CountOf(col, g) == Cardinality({ i \in 1..Len(col) : col[i] = g })

\* Series.value_counts().head(n).index: the n most frequent values of col,
\* the missing value not counted.  value_counts sorts the counts with the
\* default (unstable) sort, so among equal counts any value may come first:
\* every set of n values that no left-out value outnumbers is a possible
\* outcome
value_counts_head(col, n) ==
    LET groups == { col[i] : i \in 1..Len(col) } \ {NA}
        k == IF Cardinality(groups) < n THEN Cardinality(groups) ELSE n
    IN  { T \in SUBSET groups :
            /\ Cardinality(T) = k
            /\ \A g \in T, h \in groups \ T : CountOf(col, g) >= CountOf(col, h) }

\* the boxes of a box plot: for each group of top, the cells of the value
\* column on the rows of d of that group, in row order
Boxes(d, top, group_col, value_col) ==
    [top |-> top,
     values |-> [g \in top |->
                    CellsOf(Column(d, group_col), Column(d, value_col), g)]]

\* the data of the chart "Sugar Content by Category".  V1, V4: the top 6
\* categories of sugar_df = filtered_df.dropna(subset=['sugars_100g']), and
\* its rows.  V2, V3: the top 6 categories of filtered_df, and its rows.
\* S: the 10 most frequent values of categories, and the rows of df
boxplot_groups(v, view) ==
    LET HasSugar(r) == r.sugars_100g # NaN
        sugar_df == SelectSeq(view, HasSugar)
    IN  CASE v = "S" ->
                 { Boxes(view, T, "categories", "sugars_100g") :
                     T \in value_counts_head(Column(view, "categories"), 10) }
          [] v \in {"V1", "V4"} ->
                 { Boxes(sugar_df, T, "main_category", "sugars_100g") :
                     T \in value_counts_head(
                               Column(sugar_df, "main_category"), 6) }
          [] OTHER ->
                 { Boxes(view, T, "main_category", "sugars_100g") :
                     T \in value_counts_head(
                               Column(view, "main_category"), 6) }

NoBoxes == [top |-> {}, values |-> <<>>]

NoCharts ==
    [brand_scores |-> <<>>, country_sugar |-> <<>>,
     ultra_pct |-> Computed(<<>>), correlation |-> NoCorrelation,
     boxplot |-> NoBoxes]

\* what a run computes for its charts from the filtered view, boxes being
\* the outcome of the box plot's value_counts
Charts(v, view, boxes) ==
    [brand_scores |->
         IF v = "S" THEN brand_scores_S(view) ELSE brand_scores(view),
     country_sugar |->
         CASE v = "S" -> country_sugar(view)
           [] v = "V1" -> country_sugar_pct(view, 10)
           [] v = "V4" -> country_sugar_pct(view, 8)
           [] OTHER -> country_high(view),
     ultra_pct |->
         CASE v = "S" -> Computed(<<>>)
           [] v = "V1" -> top_ultra(view)
           [] v = "V4" -> ultra_pct_V4(view)
           [] OTHER -> ultra_pct(view),
     correlation |-> correlation(v, view),
     boxplot |-> boxes]

-----------------------------------------------------------------------------
(* One execution of the script, from load_data() to the last metric, with  *)
(* the selections s.  A failed load_data ends the run at once; so does     *)
(* st.stop().                                                              *)

RunScript(s) ==
    LET res == load_data(variant, file, cache)
        view == ApplyFilters(variant, res.df, s)
    IN  /\ res.read => reads < MaxReads
        /\ sel' = s
        /\ cache' = cache_after(cache, res)
        /\ reads' = IF res.read THEN reads + 1 ELSE reads
        /\ firstTable' =
               IF ~firstTable.set /\ res.ok
               THEN [set |-> TRUE, df |-> res.df]
               ELSE firstTable
        /\ served' = IF cache.full THEN "cache" ELSE "body"
        /\ IF ~res.ok
           THEN /\ status' = "load_failed"
                /\ surfaced' = res.shown
                /\ trace' = <<"load_data">>
                /\ df' = <<>>
                /\ filtered_df' = <<>>
                /\ metrics' = NoMetrics
                /\ charts' = NoCharts
                /\ narrowed' = narrowed
           ELSE IF StopsOnEmptyCountries(variant, s)
           THEN /\ status' = "stopped"
                /\ surfaced' = "st.warning"
                /\ trace' = <<"load_data", "widgets">>
                /\ df' = res.df
                /\ filtered_df' = <<>>
                /\ metrics' = NoMetrics
                /\ charts' = NoCharts
                /\ narrowed' = narrowed
           ELSE /\ status' = "ok"
                /\ surfaced' = "nothing"
                /\ df' = frame_after_indexing(res.df, view)
                /\ filtered_df' = view
                /\ narrowed' = (narrowed \/ Len(view) < Len(res.df))
                /\ \E boxes \in boxplot_groups(variant, view) :
                       charts' = Charts(variant, view, boxes)
                /\ IF variant = "S"
                   THEN /\ trace' = <<"load_data", "widgets", "filters">>
                        /\ metrics' = NoMetrics
                   ELSE /\ trace' =
                               <<"load_data", "widgets", "filters", "metrics">>
                        /\ metrics' = Metrics(variant, view)
        /\ UNCHANGED <<variant, file>>

\* a widget is on the page when the latest run got as far as creating it: V2
\* stops right after the country multiselect when nothing is selected
OnPage(w) ==
    /\ HasWidget(variant, w)
    /\ \/ status = "ok"
       \/ status = "stopped" /\ w = "countries"

\* Streamlit runs the script when a session opens or asks for a rerun
Rerun == RunScript(sel)

\* Streamlit runs the script again on every widget change
SetCountries ==
    /\ OnPage("countries")
    /\ \E c \in CountryChoices \ {sel.countries} :
           RunScript([sel EXCEPT !.countries = c])

SetOrganic ==
    /\ OnPage("organic")
    /\ RunScript([sel EXCEPT !.organic = ~sel.organic])

SetCategory ==
    /\ OnPage("category")
    /\ \E c \in CategoryChoices \ {sel.category} :
           RunScript([sel EXCEPT !.category = c])

SetCategories ==
    /\ OnPage("categories")
    /\ \E c \in CategoriesChoices \ {sel.categories} :
           RunScript([sel EXCEPT !.categories = c])

SetNutri ==
    /\ OnPage("nutri")
    /\ \E n \in NutriChoices \ {sel.nutri} :
           RunScript([sel EXCEPT !.nutri = n])

SetNova ==
    /\ OnPage("nova")
    /\ \E n \in NovaChoices \ {sel.nova} :
           RunScript([sel EXCEPT !.nova = n])

SetSugar ==
    /\ OnPage("sugar")
    /\ \E r \in SugarChoices \ {sel.sugar} :
           RunScript([sel EXCEPT !.sugar = r])

InitWith(fileChoices) ==
    /\ variant \in Variants
    /\ file \in fileChoices
    /\ cache = [full |-> FALSE, df |-> <<>>]
    /\ reads = 0
    /\ firstTable = [set |-> FALSE, df |-> <<>>]
    /\ served = "none"
    /\ sel = Defaults(variant)
    /\ status = "idle"
    /\ surfaced = "nothing"
    /\ trace = <<>>
    /\ df = <<>>
    /\ filtered_df = <<>>
    /\ metrics = NoMetrics
    /\ charts = NoCharts
    /\ narrowed = FALSE

\* the process starts with the CSV in place, or without it
Init == InitWith(Files \cup {Missing})

Next ==
    \/ Rerun
    \/ SetCountries
    \/ SetOrganic
    \/ SetCategory
    \/ SetCategories
    \/ SetNutri
    \/ SetNova
    \/ SetSugar

Spec == Init /\ [][Next]_vars

-----------------------------------------------------------------------------
(* The CSV changing under a running process *)

\* longest CSV (in rows) of the runs in which the file changes
MaxEnvRows == 1

EnvFiles == { Present(t) : t \in SeqsUpTo(RowPool, MaxEnvRows) \ { <<>> } }

EnvWriteFile ==
    /\ \E f \in EnvFiles \ {file} : file' = f
    /\ UNCHANGED <<variant, cache, reads, firstTable, served, sel, status,
                   surfaced, trace, df, filtered_df, metrics, charts,
                   narrowed>>

EnvRemoveFile ==
    /\ file.exists
    /\ file' = Missing
    /\ UNCHANGED <<variant, cache, reads, firstTable, served, sel, status,
                   surfaced, trace, df, filtered_df, metrics, charts,
                   narrowed>>

InitEnv == InitWith(EnvFiles \cup {Missing})

NextEnv ==
    \/ Rerun
    \/ SetCountries
    \/ EnvWriteFile
    \/ EnvRemoveFile

SpecEnv == InitEnv /\ [][NextEnv]_vars

-----------------------------------------------------------------------------
(* load_data on one-row files that range over the grade texts *)

GradeTexts ==
    { <<"a">>, <<"b">>, <<"c">>, <<"d">>, <<"e">>,
      <<"A">>, <<"C">>, <<"E">>, <<"a","+">>, <<"A","+">>,
      <<"f">>, <<"F">>, not_applicable, unknown, NA }

GradeRows ==
    { Row(<<"x">>, France, Snacks, ng, eg, <<"1">>, Organic,
          <<"1","0","0">>, <<"5">>) : ng \in GradeTexts, eg \in GradeTexts }

InitLoad == InitWith({ Present(<<r>>) : r \in GradeRows })

NextLoad == Rerun

SpecLoad == InitLoad /\ [][NextLoad]_vars

-----------------------------------------------------------------------------
(* The dashboards on two prepared files *)

\* three products: France / a / 5 g sugar / organic, France / c / 30 g / not
\* organic, USA / e / 40 g / not organic; the country of the third is spelled
\* as the dataset and the scripts' widgets spell it
ThreeRows ==
    << Row(<<"x">>, France, Snacks, <<"a">>, <<"a">>, <<"1">>, Organic,
           <<"1","0","0">>, <<"5">>),
       Row(<<"y">>, France, Snacks, <<"c">>, <<"c">>, <<"3">>, NA,
           <<"2","0","0">>, <<"3","0">>),
       Row(<<"z">>, UnitedStates, Dairies, <<"e">>, <<"e">>, <<"4">>,
           <<"b","i","o">>, <<"3","0","0">>, <<"4","0">>) >>

\* seven categories, more than the box plot shows: A..F with two products
\* each, G with three of which two have no sugar value
CategoryOfRow ==
    <<"A","A","B","B","C","C","D","D","E","E","F","F","G","G","G">>

SugarOfRow ==
    << <<"2","0">>, <<"3","0">>, <<"5">>, <<"1","0">>, <<"1","5">>,
       <<"1","5">>, <<"4","0">>, <<"2">>, <<"8">>, <<"9">>, <<"1","2">>,
       <<"5","0">>, NA, NA, <<"1","0">> >>

GradeOfRow ==
    <<"a","b","c","d","e","a","b","c","d","e","a","b","c","d","e">>

EcoOfRow ==
    <<"a","b","c","d","e","b","a","c","e","d","a","b","c","d","e">>

ManyCategories ==
    [i \in 1..Len(CategoryOfRow) |->
        Row(IF i % 2 = 0 THEN <<"x">> ELSE <<"y">>,
            IF CategoryOfRow[i] = "B" THEN UnitedStates ELSE France,
            <<CategoryOfRow[i]>>, <<GradeOfRow[i]>>, <<EcoOfRow[i]>>,
            IF i % 3 = 0 THEN <<"4">> ELSE <<"1">>,
            IF i % 5 = 0 THEN Organic ELSE NA,
            <<"1","0","0">>, SugarOfRow[i])]

InitFixture == InitWith({ Present(ThreeRows), Present(ManyCategories) })

SpecFixture == InitFixture /\ [][Next]_vars

-----------------------------------------------------------------------------
(* The dashboards on two-row files whose products differ in nothing but    *)
(* the Nutri-Score grade text, a..e or not                                 *)

NutriGradeTexts == { <<"a">>, <<"C">>, <<"d">>, unknown, NA }

NutriRows ==
    { Row(<<"x">>, France, Snacks, ng, <<"b">>, <<"1">>, Organic,
          <<"1","0","0">>, <<"5">>) : ng \in NutriGradeTexts }

NutriFiles == { Present(<<r1, r2>>) : r1 \in NutriRows, r2 \in NutriRows }

InitNutri == InitWith(NutriFiles)

SpecNutri == InitNutri /\ [][Next]_vars

-----------------------------------------------------------------------------
(* What the specification says of one row, stated on the columns of the    *)
(* table whatever the script calls them                                    *)

MainCountry(r) == IF variant = "S" THEN r.country_primary ELSE r.main_country

NutriScoreOf(r) == IF variant = "S" THEN r.nutri_score_num ELSE r.nutri_score

EcoScoreOf(r) == IF variant = "S" THEN r.eco_score_num ELSE r.eco_score

\* the specification's score_map
GradeScore(x) ==
    IF x = <<"a">> THEN Num(5)
    ELSE IF x = <<"b">> THEN Num(4)
    ELSE IF x = <<"c">> THEN Num(3)
    ELSE IF x = <<"d">> THEN Num(2)
    ELSE IF x = <<"e">> THEN Num(1)
    ELSE NaN

Loaded == status \in {"ok", "stopped"}

-----------------------------------------------------------------------------
(* C1 *)

\* C1: for every grade value x of nutriscore_grade and of ecoscore_grade in
\* the table load_data returns, the derived score is {a:5, b:4, c:3, d:2,
\* e:1}[x] when x is one of a..e and null for every other value
C1_GradeMapping ==
    Loaded =>
        \A i \in 1..Len(df) :
            /\ NutriScoreOf(df[i]) = GradeScore(df[i].nutriscore_grade)
            /\ EcoScoreOf(df[i]) = GradeScore(df[i].ecoscore_grade)

-----------------------------------------------------------------------------
(* The FilterSet of the specification, predicate by predicate *)

Widgets ==
    {"countries", "categories", "category", "nutri", "nova", "sugar",
     "organic"}

\* whether script `variant` applies predicate w under the selections s
Active(w, s) ==
    CASE w = "countries" -> variant # "S" \/ s.countries # {}
      [] w = "categories" -> variant = "S" /\ s.categories # {}
      [] w = "category" -> variant \in {"V2", "V3"} /\ s.category # All
      [] w = "nutri" -> variant \in {"V2", "V3"}
      [] w = "nova" -> variant \in {"V2", "V3"} \/ (variant = "S" /\ s.nova # {})
      [] w = "sugar" -> variant \in {"V2", "V3"}
      [] w = "organic" -> variant \in {"V2", "V3", "V4"} /\ s.organic

InSugarRange(r, s) ==
    /\ r.sugars_100g # NaN
    /\ s.sugar[1] <= r.sugars_100g[1]
    /\ r.sugars_100g[1] <= s.sugar[2]

InNovaGroups(r, s) == r.nova_group # NaN /\ r.nova_group[1] \in s.nova

InCountries(r, s) == MainCountry(r) # NA /\ MainCountry(r) \in s.countries

\* whether row r satisfies predicate w under the selections s
Holds(w, r, s) ==
    CASE w = "countries" -> InCountries(r, s)
      [] w = "categories" -> r.categories # NA /\ r.categories \in s.categories
      [] w = "category" -> r.main_category = s.category
      [] w = "nutri" -> \E g \in s.nutri : r.nutriscore_grade = <<g>>
      [] w = "nova" -> InNovaGroups(r, s)
      [] w = "sugar" -> InSugarRange(r, s)
      [] w = "organic" -> r.is_organic

\* the rows of t that satisfy every active predicate, those in skip aside
RowsSatisfying(t, s, skip) ==
    LET Keep(r) == \A w \in Widgets \ skip : Active(w, s) => Holds(w, r, s)
    IN  SelectSeq(t, Keep)

InTrace(stage) == \E i \in 1..Len(trace) : trace[i] = stage

-----------------------------------------------------------------------------
(* C2 *)

\* C2: filtering never mutates the normalized table: after any sequence of
\* selection changes and recomputations the table load_data returned, and
\* the cached table, are the table as it was built
C2_TableNotMutated ==
    Loaded => df = firstTable.df /\ cache.df = firstTable.df

\* a later run, served from the cache, whose filters removed rows
C2_Witness ==
    /\ status = "ok"
    /\ served = "cache"
    /\ sel # Defaults(variant)
    /\ Len(filtered_df) < Len(df)

-----------------------------------------------------------------------------
(* C3 *)

-----------------------------------------------------------------------------
(* C4 *)

\* C4: a run whose load failed shows the failure (the exception, or V2's
\* st.error) and ends before any filter or metric is evaluated; and a run
\* never goes on without the file
C4_LoadFailureHalts ==
    /\ status = "load_failed" =>
           /\ surfaced \in {"exception", "st.error"}
           /\ ~InTrace("filters") /\ ~InTrace("metrics")
           /\ filtered_df = <<>> /\ metrics = NoMetrics
    /\ ~file.exists => status \in {"idle", "load_failed"}

\* a run of V2 without the file
C4_Witness ==
    /\ ~file.exists
    /\ status = "load_failed"
    /\ surfaced = "st.error"

-----------------------------------------------------------------------------
(* C5 *)

UsableText(rows) ==
    /\ StrAccessorOK(Column(rows, "countries"))
    /\ StrAccessorOK(Column(rows, "categories"))
    /\ StrAccessorOK(Column(rows, "labels"))

\* C5: load_data returns as many rows as the file holds, the cells that
\* fail numeric coercion are null, and no such cell makes load_data raise
C5_RowConservation ==
    /\ Loaded =>
           /\ Len(df) = Len(file.rows)
           /\ \A i \in 1..Len(df) :
                  /\ to_numeric(file.rows[i].nova_group) = NaN
                         => df[i].nova_group = NaN
                  /\ to_numeric(file.rows[i].sugars_100g) = NaN
                         => df[i].sugars_100g = NaN
    /\ (status # "idle" /\ file.exists /\ UsableText(file.rows)) => Loaded

-----------------------------------------------------------------------------
(* C6 *)

\* C6: in V2 (one mask) and V3 (step by step) the filtered view is exactly
\* the rows that satisfy the conjunction of the active predicates, and the
\* two ways of applying them give the same rows for the same selections
C6_FilterConjunction ==
    (status = "ok" /\ variant \in {"V2", "V3"}) =>
        /\ filtered_df = RowsSatisfying(df, sel, {})
        /\ ApplyFiltersV2(df, sel) = ApplyFiltersV3(df, sel)

\* V3 with every optional predicate set, keeping some rows and not others
C6_Witness ==
    /\ status = "ok"
    /\ variant = "V3"
    /\ sel.organic
    /\ sel.category # All
    /\ sel.sugar = <<5, 30>>
    /\ Len(filtered_df) > 0
    /\ Len(filtered_df) < Len(df)

-----------------------------------------------------------------------------
(* C7 *)

\* C7 as stated: the countries filter keeps the rows whose main_country is
\* selected, and with no country selected every row passes it
C7_EmptyCountriesKeepAll ==
    status = "ok" =>
        LET Pass(r) == sel.countries = {} \/ InCountries(r, sel)
        IN  filtered_df =
                SelectSeq(RowsSatisfying(df, sel, {"countries"}), Pass)

\* C7 as amended: the countries filter keeps exactly the rows whose
\* main_country is selected; an empty selection imposes no constraint in
\* script S only: in V1, V3 and V4 it leaves no row, and in V2 it ends the
\* run before any filter
C7_CountriesFilter ==
    /\ status = "ok" =>
           LET Pass(r) ==
                   \/ variant = "S" /\ sel.countries = {}
                   \/ InCountries(r, sel)
           IN  filtered_df =
                   SelectSeq(RowsSatisfying(df, sel, {"countries"}), Pass)
    /\ (Loaded /\ sel.countries = {}) =>
           CASE variant = "S" ->
                    filtered_df = RowsSatisfying(df, sel, {"countries"})
             [] variant = "V2" ->
                    status = "stopped" /\ ~InTrace("filters")
             [] OTHER -> status = "ok" /\ filtered_df = <<>>

\* no country selected in a script other than S, on a table with rows
C7_Witness ==
    /\ status = "ok"
    /\ variant # "S"
    /\ sel.countries = {}
    /\ Len(df) > 0
    /\ filtered_df = <<>>

-----------------------------------------------------------------------------
(* C8 *)

\* C8: the sugar range keeps a row iff its sugars_100g is not null and lies
\* between min and max, both included; no row of the view has null sugar
C8_SugarRange ==
    (status = "ok" /\ variant \in {"V2", "V3"}) =>
        LET InRange(r) == InSugarRange(r, sel)
        IN  /\ filtered_df =
                   SelectSeq(RowsSatisfying(df, sel, {"sugar"}), InRange)
            /\ \A i \in 1..Len(filtered_df) :
                   filtered_df[i].sugars_100g # NaN

\* a row kept on the lower bound, and a row that only its null sugar excludes
C8_Witness ==
    /\ status = "ok"
    /\ variant = "V2"
    /\ sel.sugar = <<5, 30>>
    /\ \E i \in 1..Len(filtered_df) : filtered_df[i].sugars_100g = Num(5)
    /\ LET others == RowsSatisfying(df, sel, {"sugar"})
       IN  \E i \in 1..Len(others) : others[i].sugars_100g = NaN

-----------------------------------------------------------------------------
(* C9 *)

\* C9: when the NOVA filter is applied the view is exactly the rows whose
\* nova_group is selected, and with a selection other than {1,2,3,4} no row
\* of the view has a null nova_group
C9_NovaGroups ==
    (status = "ok" /\ Active("nova", sel)) =>
        LET InNova(r) == InNovaGroups(r, sel)
        IN  /\ filtered_df =
                   SelectSeq(RowsSatisfying(df, sel, {"nova"}), InNova)
            /\ sel.nova # {1, 2, 3, 4} =>
                   \A i \in 1..Len(filtered_df) :
                       filtered_df[i].nova_group # NaN

\* NOVA 4 alone selected, a row kept, and a row that only its null
\* nova_group excludes
C9_Witness ==
    /\ status = "ok"
    /\ sel.nova = {4}
    /\ Len(filtered_df) > 0
    /\ LET others == RowsSatisfying(df, sel, {"nova"})
       IN  \E i \in 1..Len(others) : others[i].nova_group = NaN

-----------------------------------------------------------------------------
(* C10 *)

\* C10: on a view with no row, count is 0, organic_share is 0.0,
\* mean_nutri_score is null and grade_distribution is {a:0,b:0,c:0,d:0,e:0}
C10_EmptyViewAggregates ==
    (status = "ok" /\ variant # "S" /\ Len(filtered_df) = 0) =>
        /\ metrics.count = Num(0)
        /\ metrics.organic_share = Ratio(0, 1)
        /\ metrics.mean_nutri_score = NaN
        /\ metrics.grade_distribution = [g \in Letters |-> Num(0)]

-----------------------------------------------------------------------------
(* C11 *)

\* number of rows of t whose nutriscore_grade is the letter g
GradeCount(t, g) ==
    Cardinality({ i \in 1..Len(t) : t[i].nutriscore_grade = <<g>> })

\* C11: for every filtered view the grade distribution has exactly the five
\* entries a, b, c, d, e, each the number of rows of the view with that
\* nutriscore_grade; a letter no row has is there with the count 0, never
\* absent and never null
C11_GradeDistribution ==
    (status = "ok" /\ variant # "S") =>
        /\ DOMAIN metrics.grade_distribution = Letters
        /\ \A g \in Letters :
               metrics.grade_distribution[g] = Num(GradeCount(filtered_df, g))

-----------------------------------------------------------------------------
(* C12 *)

\* the non-null scores of the rows of t whose brand is b
ScoresOfBrand(t, b) ==
    LET Mine(r) == r.brands = b /\ NutriScoreOf(r) # NaN
        rows == SelectSeq(t, Mine)
    IN  [i \in 1..Len(rows) |-> NutriScoreOf(rows[i])[1]]

RECURSIVE SumSeq(_)
SumSeq(q) == IF Len(q) = 0 THEN 0 ELSE Head(q) + SumSeq(Tail(q))

\* C12: the brand chart's group_mean holds at most 10 (brand, mean) pairs,
\* in non-increasing order of mean; each mean is the arithmetic mean of the
\* brand's non-null nutri_score values, and no brand is listed that has no
\* row with a non-null nutri_score
C12_TopBrands ==
    status = "ok" =>
        LET bs == charts.brand_scores
        IN  /\ Len(bs) <= 10
            /\ \A i \in 1..Len(bs) :
                   LET xs == ScoresOfBrand(filtered_df, bs[i][1])
                   IN  /\ Len(xs) > 0
                       /\ bs[i][2] # NaN
                       /\ bs[i][2][1] * Len(xs) = SumSeq(xs) * bs[i][2][2]
            /\ \A i, j \in 1..Len(bs) :
                   (i < j /\ bs[i][2] # NaN /\ bs[j][2] # NaN)
                       => ~RatioLess(bs[i][2], bs[j][2])

-----------------------------------------------------------------------------
(* C13 *)

\* whether the script calls row r high in sugar: 15 g and more in part_000,
\* more than 22.5 g in script S
IsHighSugar(r) ==
    /\ r.sugars_100g # NaN
    /\ IF variant = "S" THEN 2 * r.sugars_100g[1] > 45
       ELSE r.sugars_100g[1] >= 15

\* 100 * (rows of country g that satisfy the predicate) / (rows of country g
\* whose value field is not null), the value field being sugars_100g or
\* nova_group; NaN when country g has no such row
PercentOf(t, g, field) ==
    LET Eligible(r) == MainCountry(r) = g /\ r[field] # NaN
        Sat(r) == IF field = "sugars_100g" THEN IsHighSugar(r)
                  ELSE r.nova_group = Num(4)
        el == SelectSeq(t, Eligible)
    IN  IF Len(el) = 0 THEN NaN
        ELSE Ratio(100 * Len(SelectSeq(el, Sat)), Len(el))

\* C13: the high-sugar share and the ultra-processed share by country are,
\* for each country listed, 100 * (rows satisfying the predicate) / (rows
\* whose value field is not null), on the 0..100 scale; rows with a null
\* value count on neither side and a country without an eligible row is
\* not listed
C13_PercentageByGroup ==
    status = "ok" =>
        /\ \A i \in 1..Len(charts.country_sugar) :
               LET p == charts.country_sugar[i]
               IN  /\ PercentOf(filtered_df, p[1], "sugars_100g") # NaN
                   /\ p[2] = PercentOf(filtered_df, p[1], "sugars_100g")
        /\ ~charts.ultra_pct.raised
        /\ \A i \in 1..Len(charts.ultra_pct.pairs) :
               LET p == charts.ultra_pct.pairs[i]
               IN  /\ PercentOf(filtered_df, p[1], "nova_group") # NaN
                   /\ p[2] = PercentOf(filtered_df, p[1], "nova_group")

-----------------------------------------------------------------------------
(* C14 *)

\* the (nutri_score, eco_score) points of the rows of t that have both
BothScores(t) ==
    LET Has(r) == NutriScoreOf(r) # NaN /\ EcoScoreOf(r) # NaN
        d == SelectSeq(t, Has)
    IN  [i \in 1..Len(d) |-> <<NutriScoreOf(d[i])[1], EcoScoreOf(d[i])[1]>>]

\* C14: the correlation of nutri_score and eco_score is computed over the
\* rows of the view where both are not null and over no other row, and with
\* fewer than 2 such rows the result is null and nothing is raised
C14_Correlation ==
    (status = "ok" /\ variant # "S") =>
        /\ charts.correlation.points = BothScores(filtered_df)
        /\ Len(BothScores(filtered_df)) < 2 =>
               charts.correlation.value = NaN

\* a view of two rows, one without eco_score: one point is left and the
\* correlation that was computed is null
C14_Witness ==
    /\ status = "ok"
    /\ charts.correlation.computed
    /\ Len(filtered_df) = 2
    /\ Len(charts.correlation.points) = 1
    /\ charts.correlation.value = NaN

-----------------------------------------------------------------------------
(* C15 *)

\* the organic flag of a row, whatever the script calls the column
IsOrganicOf(r) == IF variant = "S" THEN r.organic ELSE r.is_organic

\* labels is there and holds the letters o-r-g-a-n-i-c in a row, in any case
MentionsOrganic(labels) ==
    /\ labels # NA
    /\ \E i \in 1..(Len(labels) - 6) :
           \A k \in 1..7 : LowerChar(labels[i + k - 1]) = organic[k]

-----------------------------------------------------------------------------
(* C16 *)

\* the first comma-separated token of a field, without the white space
\* around it; null when the field is missing
TrimmedFirstToken(field) ==
    IF field = NA THEN NA
    ELSE LET commas == { i \in 1..Len(field) : field[i] = "," }
             stop == IF commas = {} THEN Len(field) + 1
                     ELSE CHOOSE i \in commas : \A j \in commas : i <= j
             inked == { i \in 1..(stop - 1) : field[i] # " " }
         IN  IF inked = {} THEN <<>>
             ELSE SubSeq(field,
                         CHOOSE i \in inked : \A j \in inked : i <= j,
                         CHOOSE i \in inked : \A j \in inked : i >= j)

\* C16: on every row of the table load_data returns, main_country is the
\* first comma-separated token of countries with the white space around it
\* removed, and null when countries is missing; main_category is the same
\* function of categories
C16_MainCountry ==
    Loaded =>
        \A i \in 1..Len(df) :
            /\ MainCountry(df[i]) = TrimmedFirstToken(df[i].countries)
            /\ variant # "S" =>
                   df[i].main_category = TrimmedFirstToken(df[i].categories)

-----------------------------------------------------------------------------
(* C17 *)

\* C17: on the three-row file, with France as the only country selected and
\* every other widget as it starts, the view has 2 rows, the mean
\* nutri-score is 4.0 ((5 + 3) / 2) and the organic share is 0.5
C17_ThreeRowScenario ==
    (/\ status = "ok" /\ variant # "S"
     /\ file.rows = ThreeRows
     /\ sel = [Defaults(variant) EXCEPT !.countries = {France}]) =>
        /\ metrics.count = Num(2)
        /\ metrics.mean_nutri_score = <<4, 1>>
        /\ metrics.organic_share = <<1, 2>>

\* the scenario, reached by deselecting the USA
C17_Witness ==
    /\ status = "ok" /\ variant = "V1"
    /\ file.rows = ThreeRows
    /\ Len(df) = 3
    /\ sel.countries = {France}
    /\ Len(filtered_df) = 2
    /\ metrics.count = Num(2)

-----------------------------------------------------------------------------
(* C18 *)

\* the column the box plot groups by, and the number of groups it keeps
GroupOf(r) == IF variant = "S" THEN r.categories ELSE r.main_category

TopN == IF variant = "S" THEN 10 ELSE 6

\* the sugar values, nulls left out, of the rows of t in group g
SugarValuesOf(t, g) ==
    LET Mine(r) == GroupOf(r) = g /\ r.sugars_100g # NaN
        d == SelectSeq(t, Mine)
    IN  [i \in 1..Len(d) |-> d[i].sugars_100g]

\* C18: the box plot keeps the top_n groups with the most rows, the rows
\* being counted over the whole filtered view and, among groups with as many
\* rows, the one met first in the view winning; the value list of each group
\* kept holds the non-null values of the value field and nothing else
C18_BoxplotGroups ==
    status = "ok" =>
        LET col == [i \in 1..Len(filtered_df) |-> GroupOf(filtered_df[i])]
            groups == { col[i] : i \in 1..Len(col) } \ {NA}
            First(g) == CHOOSE i \in 1..Len(col) :
                            col[i] = g /\ \A j \in 1..(i - 1) : col[j] # g
            k == IF Cardinality(groups) < TopN THEN Cardinality(groups)
                 ELSE TopN
            T == charts.boxplot.top
        IN  /\ T \subseteq groups
            /\ Cardinality(T) = k
            /\ \A g \in T, h \in groups \ T :
                   \/ CountOf(col, g) > CountOf(col, h)
                   \/ CountOf(col, g) = CountOf(col, h) /\ First(g) < First(h)
            /\ \A g \in T :
                   charts.boxplot.values[g] = SugarValuesOf(filtered_df, g)

-----------------------------------------------------------------------------
(* C19 *)

\* C19: what a run shows is a function of the loaded table and the current
\* selections alone: the view is the rows of the table as it was loaded that
\* pass the selections now in force, the metrics and the chart aggregates
\* are those of that view, and a run with unchanged selections repeats the
\* results of the run before; no earlier selection narrows the table
C19_RecomputeIsPure ==
    /\ [](status = "ok" =>
            /\ df = firstTable.df
            /\ filtered_df = RowsSatisfying(firstTable.df, sel, {})
            /\ metrics = IF variant = "S" THEN NoMetrics
                         ELSE Metrics(variant, filtered_df)
            /\ \E boxes \in boxplot_groups(variant, filtered_df) :
                   charts = Charts(variant, filtered_df, boxes))
    /\ [][(status = "ok" /\ status' = "ok" /\ sel' = sel) =>
              /\ filtered_df' = filtered_df
              /\ metrics' = metrics
              /\ charts' = charts]_vars

\* a run that shows the whole table after an earlier run of the session
\* had filtered rows out
C19_Witness ==
    /\ status = "ok"
    /\ narrowed
    /\ served = "cache"
    /\ Len(df) > 1
    /\ filtered_df = df

-----------------------------------------------------------------------------
(* C20 *)

\* C20: in the dashboards whose NOVA multiselect starts at [1,2,3,4] the
\* NOVA predicate is applied in every run: no row of the view has a null
\* nova_group or a group that is not selected, also with all four groups
\* selected, and with no group selected the view is empty
C20_NovaAlwaysApplied ==
    (status = "ok" /\ variant \in {"V2", "V3"}) =>
        /\ \A i \in 1..Len(filtered_df) :
               /\ filtered_df[i].nova_group # NaN
               /\ filtered_df[i].nova_group[1] \in sel.nova
        /\ sel.nova = {} => filtered_df = <<>>

\* all four groups selected, and a row that passes every other predicate is
\* kept out of a non-empty view by its null nova_group alone
C20_Witness ==
    /\ status = "ok"
    /\ variant \in {"V2", "V3"}
    /\ sel.nova = {1, 2, 3, 4}
    /\ Len(filtered_df) > 0
    /\ LET others == RowsSatisfying(df, sel, {"nova"})
       IN  \E i \in 1..Len(others) : others[i].nova_group = NaN

-----------------------------------------------------------------------------
(* C21 *)

\* the bars of the Nutri-Score distribution added up; a null count is a
\* letter without a bar
BarsTotal(dist) ==
    LET Bar(g) == IF dist[g] = NaN THEN 0 ELSE dist[g][1]
    IN  Bar("a") + Bar("b") + Bar("c") + Bar("d") + Bar("e")

\* C21: in the dashboards with a Nutri-Score multiselect every row of the
\* filtered view has a nutriscore_grade among the selected letters of
\* a..e; hence the counts of the Nutri-Score distribution over a..e sum to
\* the displayed product count, and every row of the view has a non-null
\* nutri_score
C21_ViewWithinSelectedGrades ==
    (status = "ok" /\ variant \in {"V2", "V3"}) =>
        /\ sel.nutri \subseteq Letters
        /\ \A i \in 1..Len(filtered_df) :
               /\ \E g \in sel.nutri : filtered_df[i].nutriscore_grade = <<g>>
               /\ filtered_df[i].nutri_score # NaN
        /\ Num(BarsTotal(metrics.grade_distribution)) = metrics.count

\* a view with a product in it, of a table in which a product that passes
\* every other predicate has a grade text that is none of a..e
C21_Witness ==
    /\ status = "ok"
    /\ variant \in {"V2", "V3"}
    /\ Len(filtered_df) > 0
    /\ LET others == RowsSatisfying(df, sel, {"nutri"})
       IN  \E i \in 1..Len(others) :
               /\ others[i].nutri_score = NaN
               /\ \A g \in Letters : others[i].nutriscore_grade # <<g>>

====
